---- MODULE Spec2Model ----
(***************************************************************************)
(* Day 05 of the repository: the almanac of category stages                *)
(* (src/day-05/src/main.rs).  An Almanach holds the seed list and the      *)
(* ordered stages (Location), each a HashSet of offset rules               *)
(* (LocationRange).  The model keeps a built, immutable almanac in         *)
(* `seeds` and `locations`, lets every query of the program run against    *)
(* it, and follows the inverse scan of Almanach::process_range chunk by    *)
(* chunk and worker by worker.                                             *)
(*                                                                         *)
(* A Range<i32> a..b is the record [start |-> a, end |-> b]; it contains   *)
(* x iff a <= x < b, so a range with start >= end is empty.                *)
(* An Option<T> is a sequence: <<>> is None and <<v>> is Some(v).          *)
(* A call that may panic returns [panic |-> BOOLEAN, ret |-> value].       *)
(*                                                                         *)
(* Day 04 of the repository (src/day-04/src/main.rs) is a program of its   *)
(* own: the pile of scratchcards and the copy cascade of part02.  Its      *)
(* state is in `pile` and `part02`; no action of one program touches the   *)
(* state of the other.                                                     *)
(***************************************************************************)
EXTENDS Integers, Sequences, FiniteSets

VARIABLES seeds, locations, call, pc, iter, chunk, tested, best, passed, answer,
          pile, part02

vars == <<seeds, locations, call, pc, iter, chunk, tested, best, passed, answer,
          pile, part02>>

almanachvars == <<seeds, locations, call, pc, iter, chunk, tested, best, passed, answer>>

pilevars == <<pile, part02>>

scanvars == <<pc, iter, chunk, tested, best, passed, answer>>

(***************************************************************************)
(* Bounds of the model.                                                    *)
(***************************************************************************)
\* start values (dst_start, src_start, seed starts) range over 0..MaxVal
MaxVal == 2
\* rule and seed-range lengths range over 1..MaxLen
MaxLen == 2
\* rules of one almanac, over all its stages
MaxRules == 2
\* stages of one almanac (SEED_STEPS gives the program seven)
NumStages == 2
\* (start, length) pairs of the seed list
MaxPairs == 1
\* the largest i32, scaled down: the candidate iterator (1..) overflows past it
I32_MAX == 5
\* candidates per chunk of the inverse scan, scaled down from 1_000_000
CHUNK_SIZE == 2
\* cards of one pile (day 04)
MaxCards == 3
\* the numbers printed on a scratchcard range over 1..MaxNum (day 04)
MaxNum == 2

I32_MIN == -I32_MAX - 1

Max(a, b) == IF a >= b THEN a ELSE b

Min(a, b) == IF a <= b THEN a ELSE b

None == <<>>

Some(v) == <<v>>

Ok(v) == [panic |-> FALSE, ret |-> v]

\* a Range<i32>
Rg(a, b) == [start |-> a, end |-> b]

\* Range::contains
Contains(rg, x) == rg.start <= x /\ x < rg.end

\* Iterator::nth on a Range<i32>: the n-th value, None past the end
Range_nth(rg, n) == IF rg.start + n < rg.end THEN Some(rg.start + n) ELSE None

\* LocationRange::new
LocationRange_new(dst_start, src_start, length) ==
    [dst_start |-> dst_start, src_start |-> src_start, length |-> length]

\* LocationRange::src_range
src_range(r) == Rg(r.src_start, r.src_start + r.length)

\* LocationRange::dst_range
dst_range(r) == Rg(r.dst_start, r.dst_start + r.length)

(***************************************************************************)
(* LocationRange: one offset rule.                                         *)
(***************************************************************************)
\* LocationRange::map with the end of the source range taken as inside it
LocationRange_map_end_inside(r, src) ==
    IF ~(r.src_start <= src /\ src <= r.src_start + r.length)
    THEN Ok(None)
    ELSE LET offset == src - r.src_start
             nth == Range_nth(dst_range(r), offset)
         IN  IF nth = None THEN [panic |-> TRUE, ret |-> None]
                           ELSE Ok(Some(nth[1]))

\* LocationRange::map: None outside the source range, else the offset-th
\* value of the destination range, unwrapped
LocationRange_map(r, src) ==
    IF ~Contains(src_range(r), src)
    THEN Ok(None)
    ELSE LET offset == src - r.src_start
             nth == Range_nth(dst_range(r), offset)
         IN  IF nth = None THEN [panic |-> TRUE, ret |-> None]
                           ELSE Ok(Some(nth[1]))

\* LocationRange::reverse_map with the value taken from the destination range,
\* as LocationRange::map takes it
LocationRange_reverse_map_from_dst(r, dst) ==
    IF ~Contains(dst_range(r), dst)
    THEN Ok(None)
    ELSE LET offset == dst - r.dst_start
             nth == Range_nth(dst_range(r), offset)
         IN  IF nth = None THEN [panic |-> TRUE, ret |-> None]
                           ELSE Ok(Some(nth[1]))

\* LocationRange::reverse_map
LocationRange_reverse_map(r, dst) ==
    IF ~Contains(dst_range(r), dst)
    THEN Ok(None)
    ELSE LET offset == dst - r.dst_start
             nth == Range_nth(src_range(r), offset)
         IN  IF nth = None THEN [panic |-> TRUE, ret |-> None]
                           ELSE Ok(Some(nth[1]))

\* split_range that maps the intersection and still leaves the whole query over
split_range_keeps_query(r, query) ==
    LET loc_src_range == src_range(r)
        left == Max(query.start, loc_src_range.start)
        right == Min(query.end, loc_src_range.end)
        offset == r.dst_start - r.src_start
    IN  IF left < right
        THEN [src_ranges |-> <<query>>,
              dst_range |-> Some(Rg(left + offset, right + offset))]
        ELSE [src_ranges |-> <<query>>, dst_range |-> None]

\* LocationRange::split_range: (src_ranges, dst_range)
split_range(r, query) ==
    LET loc_src_range == src_range(r)
        left == Max(query.start, loc_src_range.start)
        right == Min(query.end, loc_src_range.end)
        in_loc_range == Rg(left, right)
        parts ==
            IF in_loc_range.start < in_loc_range.end
            THEN [src_ranges |-> <<query>>, in_loc |-> None]
            ELSE IF in_loc_range = query
            THEN [src_ranges |-> <<>>, in_loc |-> Some(query)]
            ELSE IF right = loc_src_range.end
            THEN [src_ranges |-> <<Rg(query.start, in_loc_range.start)>>,
                  in_loc |-> Some(in_loc_range)]
            ELSE IF left = loc_src_range.start
            THEN [src_ranges |-> <<Rg(in_loc_range.end, query.end)>>,
                  in_loc |-> Some(in_loc_range)]
            ELSE [src_ranges |-> <<Rg(query.start, in_loc_range.start),
                                   Rg(in_loc_range.end, query.end)>>,
                  in_loc |-> Some(in_loc_range)]
        offset == r.dst_start - r.src_start
    IN  [src_ranges |-> parts.src_ranges,
         dst_range |-> IF parts.in_loc = None
                       THEN None
                       ELSE Some(Rg(parts.in_loc[1].start + offset,
                                    parts.in_loc[1].end + offset))]

(***************************************************************************)
(* Location: one stage.  `stage` is the sequence of its rules in the       *)
(* iteration order of its HashSet.                                         *)
(***************************************************************************)
RECURSIVE Location_map_from(_, _, _)
\* the loop of Location::map from rule i on
Location_map_from(stage, i, input) ==
    IF i > Len(stage)
    THEN Ok(input)
    ELSE LET m == LocationRange_map(stage[i], input)
         IN  IF m.panic THEN [panic |-> TRUE, ret |-> 0]
             ELSE IF m.ret # None THEN Ok(m.ret[1])
             ELSE Location_map_from(stage, i + 1, input)

RECURSIVE Location_map_no_return(_, _, _)
\* the loop of Location::map without its early return: every rule in turn
\* is applied to what the rules before it made of the input
Location_map_no_return(stage, i, input) ==
    IF i > Len(stage)
    THEN Ok(input)
    ELSE LET m == LocationRange_map(stage[i], input)
         IN  IF m.panic THEN [panic |-> TRUE, ret |-> 0]
             ELSE IF m.ret # None THEN Location_map_no_return(stage, i + 1, m.ret[1])
             ELSE Location_map_no_return(stage, i + 1, input)

Location_map_falls_through(stage, input) == Location_map_no_return(stage, 1, input)

\* Location::map
Location_map(stage, input) == Location_map_from(stage, 1, input)

RECURSIVE Location_reverse_map_from(_, _, _)
\* the loop of Location::reverse_map from rule i on
Location_reverse_map_from(stage, i, input) ==
    IF i > Len(stage)
    THEN Ok(input)
    ELSE LET m == LocationRange_reverse_map(stage[i], input)
         IN  IF m.panic THEN [panic |-> TRUE, ret |-> 0]
             ELSE IF m.ret # None THEN Ok(m.ret[1])
             ELSE Location_reverse_map_from(stage, i + 1, input)

\* Location::reverse_map
Location_reverse_map(stage, input) == Location_reverse_map_from(stage, 1, input)

RECURSIVE drain_unseen(_, _, _, _)
\* the `while let Some(range) = unseen.pop()` loop of Location::map_ranges
drain_unseen(loc_range, unseen, dst_ranges, still_here) ==
    IF unseen = <<>>
    THEN [dst_ranges |-> dst_ranges, still_here |-> still_here]
    ELSE LET range == unseen[Len(unseen)]
             sp == split_range(loc_range, range)
         IN  drain_unseen(loc_range, SubSeq(unseen, 1, Len(unseen) - 1),
                          dst_ranges \o sp.dst_range,
                          still_here \o sp.src_ranges)

RECURSIVE map_ranges_from(_, _, _, _)
\* the `for loc_range in &self.ranges` loop of Location::map_ranges from rule i on
map_ranges_from(stage, i, dst_ranges, unseen) ==
    IF i > Len(stage)
    THEN dst_ranges \o unseen
    ELSE LET d == drain_unseen(stage[i], unseen, dst_ranges, <<>>)
         IN  map_ranges_from(stage, i + 1, d.dst_ranges, d.still_here)

\* Location::map_ranges
map_ranges(stage, ranges) == map_ranges_from(stage, 1, <<>>, ranges)

(***************************************************************************)
(* Almanach: the seeds and the stages.                                     *)
(***************************************************************************)
RECURSIVE get_dst_from(_, _, _)
\* the fold of Almanach::get_dst from stage i on
get_dst_from(locs, i, acc) ==
    IF i > Len(locs) \/ acc.panic
    THEN acc
    ELSE get_dst_from(locs, i + 1, Location_map(locs[i], acc.ret))

\* Almanach::get_dst
get_dst(locs, src) == get_dst_from(locs, 1, Ok(src))

RECURSIVE get_src_from(_, _, _)
\* the reversed fold of Almanach::get_src from stage i down
get_src_from(locs, i, acc) ==
    IF i < 1 \/ acc.panic
    THEN acc
    ELSE get_src_from(locs, i - 1, Location_reverse_map(locs[i], acc.ret))

\* Almanach::get_src
get_src(locs, dst) == get_src_from(locs, Len(locs), Ok(dst))

\* the seed list read as (start, length) pairs: .tuples().map(|(a, b)| a..a + b)
intervals_of(sds) ==
    [k \in 1..(Len(sds) \div 2) |-> Rg(sds[2 * k - 1], sds[2 * k - 1] + sds[2 * k])]

RECURSIVE fold_map_ranges(_, _, _)
\* the fold of tests::test_map_range: map_ranges stage after stage
fold_map_ranges(locs, i, ranges) ==
    IF i > Len(locs)
    THEN ranges
    ELSE fold_map_ranges(locs, i + 1, map_ranges(locs[i], ranges))

\* the test of the inverse scan on one mapped candidate:
\* intervals.iter().any(|range| range.contains(src))
in_intervals(intervals, src) ==
    \E k \in 1..Len(intervals) : Contains(intervals[k], src)

RECURSIVE fold_location_map(_, _, _)
\* the fold of Almanach::process_raw's closure: Location::map stage after stage
fold_location_map(locs, i, acc) ==
    IF i > Len(locs) \/ acc.panic
    THEN acc
    ELSE fold_location_map(locs, i + 1, Location_map(locs[i], acc.ret))

RECURSIVE process_raw_from(_, _, _, _)
\* Iterator::min over the mapped seeds from seed k on; `least` is the
\* smallest value so far (None before the first seed); unwrap at the end
process_raw_from(locs, sds, k, least) ==
    IF k > Len(sds)
    THEN IF least = None THEN [panic |-> TRUE, ret |-> 0] ELSE Ok(least[1])
    ELSE LET v == fold_location_map(locs, 1, Ok(sds[k]))
         IN  IF v.panic THEN [panic |-> TRUE, ret |-> 0]
             ELSE process_raw_from(locs, sds, k + 1,
                      IF least = None \/ v.ret < least[1] THEN Some(v.ret) ELSE least)

\* Almanach::process_raw that maps the seeds after taking their minimum
process_raw_min_first(locs, sds) ==
    IF sds = <<>>
    THEN [panic |-> TRUE, ret |-> 0]
    ELSE fold_location_map(locs, 1,
             Ok(CHOOSE m \in {sds[k] : k \in 1..Len(sds)} :
                    \A k \in 1..Len(sds) : m <= sds[k]))

\* Almanach::process_raw
process_raw(locs, sds) == process_raw_from(locs, sds, 1, None)

(***************************************************************************)
(* Almanach::parse.  The input text is held token by token: the seed line  *)
(* is a sequence of tokens, a stage block is present or missing and holds  *)
(* its rule lines, each a sequence of tokens; tokens of a line are one     *)
(* blank apart and lines one newline apart.  A token is its leading        *)
(* decimal digits (None when it has none) and whether other characters     *)
(* follow them: "50" is Tok(50), "x" is Junk, "2x" is TokJunk(2).          *)
(***************************************************************************)
Tok(n) == [digits |-> Some(n), junk |-> FALSE]

Junk == [digits |-> None, junk |-> TRUE]

TokJunk(n) == [digits |-> Some(n), junk |-> TRUE]

\* str::parse::<i32> on a string of decimal digits, unwrapped
parse_i32(n) == IF n > I32_MAX THEN [panic |-> TRUE, ret |-> 0] ELSE Ok(n)

RECURSIVE capture_map(_, _, _, _)
\* what (\d+\s?)+ of build_location_regex captures right after the header
\* line, from token t of line l on: the rows of digit strings captured so
\* far are `rows`.  The capture ends at the first character that is neither
\* a digit nor the one blank or newline after a digit string.
capture_map(lines, l, t, rows) ==
    IF l > Len(lines) THEN rows
    ELSE IF Len(lines[l]) = 0 THEN rows
    ELSE IF t > Len(lines[l]) THEN capture_map(lines, l + 1, 1, rows)
    ELSE LET tok == lines[l][t]
             taken == IF t = 1
                      THEN Append(rows, <<tok.digits[1]>>)
                      ELSE [rows EXCEPT ![Len(rows)] = Append(@, tok.digits[1])]
         IN  IF tok.digits = None THEN rows
             ELSE IF tok.junk THEN taken
             ELSE capture_map(lines, l, t + 1, taken)

\* LocationRange::parse on one captured line: the first three tokens,
\* each unwrapped; tokens after the third are not looked at
LocationRange_parse(row) ==
    IF Len(row) < 3
    THEN [panic |-> TRUE, ret |-> LocationRange_new(0, 0, 0)]
    ELSE IF parse_i32(row[1]).panic \/ parse_i32(row[2]).panic \/ parse_i32(row[3]).panic
    THEN [panic |-> TRUE, ret |-> LocationRange_new(0, 0, 0)]
    ELSE Ok(LocationRange_new(row[1], row[2], row[3]))

\* Location::parse_ranges: the set of rules of one stage block; panics when
\* the regex finds no header followed by a digit, or a line fails to parse
parse_ranges(block) ==
    IF ~block.present
    THEN [panic |-> TRUE, ret |-> {}]
    ELSE LET rows == capture_map(block.lines, 1, 1, <<>>)
         IN  IF rows = <<>>
             THEN [panic |-> TRUE, ret |-> {}]
             ELSE IF \E k \in 1..Len(rows) : LocationRange_parse(rows[k]).panic
             THEN [panic |-> TRUE, ret |-> {}]
             ELSE Ok({LocationRange_parse(rows[k]).ret : k \in 1..Len(rows)})

RECURSIVE capture_seeds(_, _)
\* what (\d+\s)+ of parse_seeds captures from token t of the seed line on:
\* digit strings each followed by a blank or the newline
capture_seeds(line, t) ==
    IF t > Len(line) THEN <<>>
    ELSE IF line[t].digits = None \/ line[t].junk THEN <<>>
    ELSE <<line[t].digits[1]>> \o capture_seeds(line, t + 1)

\* parse_seeds
parse_seeds(line) ==
    LET c == capture_seeds(line, 1)
    IN  IF c = <<>> \/ \E k \in 1..Len(c) : parse_i32(c[k]).panic
        THEN [panic |-> TRUE, ret |-> <<>>]
        ELSE Ok(c)

\* Almanach::parse: the stages in order, then the seeds; a panic anywhere
\* ends the thread and no Almanach is returned.  `locations` are the rule
\* sets of the stages.
Almanach_parse(input) ==
    IF \E i \in DOMAIN input.blocks : parse_ranges(input.blocks[i]).panic
    THEN [panic |-> TRUE, seeds |-> <<>>, locations |-> <<>>]
    ELSE IF parse_seeds(input.seedline).panic
    THEN [panic |-> TRUE, seeds |-> <<>>, locations |-> <<>>]
    ELSE [panic |-> FALSE,
          seeds |-> parse_seeds(input.seedline).ret,
          locations |-> [i \in DOMAIN input.blocks |-> parse_ranges(input.blocks[i]).ret]]

\* the orders in which a HashSet may yield its elements
Orders(S) ==
    {q \in [1..Cardinality(S) -> S] : \A a, b \in 1..Cardinality(S) : a # b => q[a] # q[b]}

(***************************************************************************)
(* The almanacs of the model: what Almanach::new can hold within the       *)
(* bounds.  Nothing is checked at construction, so rules of one stage may  *)
(* overlap and a rule may have length 0 (EmptyRules); a stage as           *)
(* Location::new leaves it holds no rule, one read by parse_ranges holds   *)
(* at least one.                                                           *)
(***************************************************************************)
Rules ==
    {LocationRange_new(d, s, l) : d \in 0..MaxVal, s \in 0..MaxVal, l \in 1..MaxLen}

\* the rules of length 0, which nothing at construction rejects
EmptyRules ==
    {LocationRange_new(d, s, 0) : d \in 0..MaxVal, s \in 0..MaxVal}

StageIds == 1..NumStages

\* rules tagged with their stage, in parse order: stage by stage
RECURSIVE TaggedUpTo(_)
TaggedUpTo(n) ==
    IF n = 0
    THEN {<<>>}
    ELSE LET prev == TaggedUpTo(n - 1)
         IN  prev \cup
             {Append(t, <<i, r>>) :
                 t \in {u \in prev : Len(u) = n - 1},
                 i \in StageIds, r \in Rules}

\* the rules of stage i among the tagged rules t, in order
RECURSIVE StageOf(_, _)
StageOf(t, i) ==
    IF t = <<>>
    THEN <<>>
    ELSE LET rest == StageOf(SubSeq(t, 1, Len(t) - 1), i)
             last == t[Len(t)]
         IN  IF last[1] = i THEN Append(rest, last[2]) ELSE rest

\* a HashSet holds a rule once; the stages are filled in order
WellTagged(t) ==
    /\ \A a, b \in 1..Len(t) : a < b => t[a][1] <= t[b][1]
    /\ \A a, b \in 1..Len(t) : a < b => t[a] # t[b]

Pipelines ==
    {[i \in StageIds |-> StageOf(t, i)] : t \in {u \in TaggedUpTo(MaxRules) : WellTagged(u)}}

\* the almanacs with at most one rule
SparsePipelines ==
    {[i \in StageIds |-> StageOf(t, i)] : t \in TaggedUpTo(1)}

\* the rules of one stage, in the order its set yields them
RECURSIVE RuleSeqsUpTo(_)
RuleSeqsUpTo(n) ==
    IF n = 0
    THEN {<<>>}
    ELSE LET prev == RuleSeqsUpTo(n - 1)
         IN  prev \cup
             {Append(t, r) :
                 t \in {u \in prev : Len(u) = n - 1}, r \in Rules}

\* two rules whose source ranges share no integer
SourcesApart(r1, r2) ==
    r1.src_start + r1.length <= r2.src_start \/ r2.src_start + r2.length <= r1.src_start

\* the stages the domain promises: source ranges pairwise disjoint
DisjointStages ==
    {t \in RuleSeqsUpTo(MaxRules) :
        \A a, b \in 1..Len(t) : a < b => SourcesApart(t[a], t[b])}

\* stages holding a rule of length 0, alone or with one other rule: its
\* source range is empty, so the source ranges are pairwise disjoint
EmptyRuleStages ==
    {<<z>> : z \in EmptyRules}
    \cup {<<r, z>> : r \in Rules, z \in EmptyRules}
    \cup {<<z, r>> : z \in EmptyRules, r \in Rules}

\* the almanacs of two stages with at most one rule each
ChainPipelines ==
    {<<a, b>> : a, b \in RuleSeqsUpTo(1)}

\* rule lines of the input: well-formed ones, with a zero length and with
\* equal source ranges among them, and malformed ones: two tokens, four
\* tokens, a token that is no number in each place, a number with a letter
\* stuck to it
InputLines ==
    {<<Tok(0), Tok(0), Tok(1)>>, <<Tok(1), Tok(0), Tok(1)>>, <<Tok(0), Tok(1), Tok(1)>>,
     <<Tok(1), Tok(1), Tok(0)>>,
     <<Tok(0), Tok(0)>>, <<Tok(0), Tok(0), Tok(1), Tok(1)>>,
     <<Junk, Tok(0), Tok(1)>>, <<Tok(0), Junk, Tok(1)>>, <<Tok(0), Tok(0), Junk>>,
     <<Tok(0), Tok(0), TokJunk(1)>>}

\* stage blocks of the input: missing, or a header with one or two rule lines
InputBlocks ==
    {[present |-> FALSE, lines |-> <<>>]}
    \cup {[present |-> TRUE, lines |-> <<a>>] : a \in InputLines}
    \cup {[present |-> TRUE, lines |-> <<a, b>>] : a, b \in InputLines}

\* seed lines of the input
InputSeedLines ==
    {<<Tok(0), Tok(1)>>, <<Tok(1), Tok(1)>>, <<Tok(0), Junk>>, <<Junk>>}

\* the input texts
Inputs ==
    [seedline : InputSeedLines, blocks : [StageIds -> InputBlocks]]

\* one seed list per sequence of (start, length) pairs
RECURSIVE SeedListsUpTo(_)
SeedListsUpTo(n) ==
    IF n = 0
    THEN {<<>>}
    ELSE LET prev == SeedListsUpTo(n - 1)
         IN  prev \cup
             {s \o <<a, b>> :
                 s \in {u \in prev : Len(u) = 2 * (n - 1)},
                 a \in 0..MaxVal, b \in 1..MaxLen}

SeedLists == SeedListsUpTo(MaxPairs) \ {<<>>}

\* the points a query is asked about
Points == 0..(MaxVal + MaxLen + 1)

\* the ranges a query is asked about: non-empty, inside 0..MaxVal + MaxLen + 1
Queries == {Rg(a, a + l) : a \in 0..(MaxVal + 1), l \in 1..MaxLen}

\* the range vectors handed to map_ranges: one query, or two disjoint ones
RangeVecs ==
    {<<q>> : q \in Queries} \cup
    {v \in {<<q1, q2>> : q1, q2 \in Queries} :
        v[2].end <= v[1].start \/ v[1].end <= v[2].start}

NoCall == [op |-> "none", i |-> 0, j |-> 0, x |-> 0, ranges |-> <<>>, out |-> 0]

\* day 04 is not running
NoPile ==
    /\ pile = [cards |-> <<>>, duplicates |-> <<>>]
    /\ part02 = [pc |-> "none", done |-> 0, ret |-> 0]

\* no query has run on the almanac yet
Fresh ==
    /\ call = NoCall
    /\ pc = "built"
    /\ iter = 1
    /\ chunk = <<>>
    /\ tested = {}
    /\ best = 0
    /\ passed = {}
    /\ answer = Ok(0)
    /\ NoPile

\* any almanac of the bounds
Init ==
    /\ seeds \in SeedLists
    /\ locations \in Pipelines
    /\ Fresh

\* one rule in one stage; the seed list plays no part in a rule's queries
InitRule ==
    /\ seeds = <<0, 1>>
    /\ locations \in {<<<<r>>>> : r \in Rules \cup EmptyRules}
    /\ Fresh

\* one stage with pairwise-disjoint source ranges; the seed list plays no
\* part in a stage's queries
InitStage ==
    /\ seeds = <<0, 1>>
    /\ locations \in {<<t>> : t \in DisjointStages \cup EmptyRuleStages}
    /\ Fresh

\* an almanac with at most one rule, and any seed list
InitScan ==
    /\ seeds \in SeedLists
    /\ locations \in SparsePipelines
    /\ Fresh

\* two stages of at most one rule each, and any seed list
InitPoint ==
    /\ seeds \in SeedLists
    /\ locations \in ChainPipelines
    /\ Fresh

\* main before Almanach::parse: some input text has been read, no almanac
\* is built
InitParse ==
    /\ seeds = <<>>
    /\ locations = <<>>
    /\ call \in {[op |-> "Almanach::parse", input |-> inp, out |-> "pending"] : inp \in Inputs}
    /\ pc = "unbuilt"
    /\ iter = 1
    /\ chunk = <<>>
    /\ tested = {}
    /\ best = 0
    /\ passed = {}
    /\ answer = Ok(0)
    /\ NoPile

(***************************************************************************)
(* The queries on the built almanac.  None changes the almanac; each       *)
(* leaves its arguments and what it returned in `call`.                    *)
(***************************************************************************)
Idle == pc = "built" /\ call = NoCall

Did(op, i, j, x, ranges, out) ==
    /\ call' = [op |-> op, i |-> i, j |-> j, x |-> x, ranges |-> ranges, out |-> out]
    /\ UNCHANGED <<seeds, locations, scanvars, pilevars>>

CallRuleMap ==
    /\ Idle
    /\ \E i \in DOMAIN locations : \E j \in 1..Len(locations[i]) : \E x \in Points :
          Did("LocationRange::map", i, j, x, <<>>, LocationRange_map(locations[i][j], x))

CallRuleReverseMap ==
    /\ Idle
    /\ \E i \in DOMAIN locations : \E j \in 1..Len(locations[i]) : \E x \in Points :
          Did("LocationRange::reverse_map", i, j, x, <<>>,
              LocationRange_reverse_map(locations[i][j], x))

CallSplitRange ==
    /\ Idle
    /\ \E i \in DOMAIN locations : \E j \in 1..Len(locations[i]) : \E q \in Queries :
          Did("LocationRange::split_range", i, j, 0, <<q>>,
              split_range(locations[i][j], q))

CallLocationMap ==
    /\ Idle
    /\ \E i \in DOMAIN locations : \E x \in Points :
          Did("Location::map", i, 0, x, <<>>, Location_map(locations[i], x))

CallLocationReverseMap ==
    /\ Idle
    /\ \E i \in DOMAIN locations : \E x \in Points :
          Did("Location::reverse_map", i, 0, x, <<>>,
              Location_reverse_map(locations[i], x))

CallMapRanges ==
    /\ Idle
    /\ \E i \in DOMAIN locations : \E rs \in RangeVecs :
          Did("Location::map_ranges", i, 0, 0, rs, map_ranges(locations[i], rs))

CallGetDst ==
    /\ Idle
    /\ \E x \in Points : Did("Almanach::get_dst", 0, 0, x, <<>>, get_dst(locations, x))

CallGetSrc ==
    /\ Idle
    /\ \E x \in Points : Did("Almanach::get_src", 0, 0, x, <<>>, get_src(locations, x))

\* tests::test_map_range: the seed intervals folded through every stage
CallTestMapRange ==
    /\ Idle
    /\ Did("tests::test_map_range", 0, 0, 0, intervals_of(seeds),
           fold_map_ranges(locations, 1, intervals_of(seeds)))

\* Almanach::parse on the input text: the almanac is built, each stage's
\* HashSet in some iteration order, or the thread panics
AlmanachParse ==
    /\ pc = "unbuilt"
    /\ LET res == Almanach_parse(call.input)
       IN  IF res.panic
           THEN /\ pc' = "panic"
                /\ call' = [call EXCEPT !.out = "panic"]
                /\ UNCHANGED <<seeds, locations>>
           ELSE /\ pc' = "built"
                /\ call' = [call EXCEPT !.out = "ok"]
                /\ seeds' = res.seeds
                /\ \E locs \in [DOMAIN res.locations -> UNION {Orders(res.locations[i]) : i \in DOMAIN res.locations}] :
                      /\ \A i \in DOMAIN res.locations : locs[i] \in Orders(res.locations[i])
                      /\ locations' = locs
    /\ UNCHANGED <<iter, chunk, tested, best, passed, answer, pilevars>>

CallProcessRaw ==
    /\ Idle
    /\ Did("Almanach::process_raw", 0, 0, 0, <<>>, process_raw(locations, seeds))

Return ==
    /\ pc = "built"
    /\ call # NoCall
    /\ call' = NoCall
    /\ UNCHANGED <<seeds, locations, scanvars, pilevars>>

(***************************************************************************)
(* Almanach::process_range: the inverse scan.  The candidate iterator      *)
(* (1..) is cut into chunks of CHUNK_SIZE; flat_map takes one chunk at a   *)
(* time, collects it, and runs find_first over it on the worker pool;      *)
(* next() stops at the first chunk that yields a value.                    *)
(*   pc = "pull"  the next chunk is being collected from the iterator      *)
(*   pc = "par"   the workers test the candidates of `chunk`               *)
(*   pc = "done"  process_range returned `answer`                          *)
(*   pc = "panic" the thread panicked                                      *)
(* `tested` holds the positions of `chunk` already tested, `best` the      *)
(* leftmost position found to match (0: none yet), `passed` the candidates *)
(* of the chunks find_first returned None for.                             *)
(***************************************************************************)
\* i32 wrapping_add(1): what Step::forward does without overflow checks
wrapping_next(d) == IF d = I32_MAX THEN I32_MIN ELSE d + 1

RECURSIVE take(_, _)
\* the next n values of the iterator whose next value is d, wrapping
take(d, n) == IF n = 0 THEN <<>> ELSE <<d>> \o take(wrapping_next(d), n - 1)

RECURSIVE advance(_, _)
\* the iterator's next value after n calls of next(), wrapping
advance(d, n) == IF n = 0 THEN d ELSE advance(wrapping_next(d), n - 1)

\* collecting CHUNK_SIZE values from d on calls next() on i32::MAX
overflows(d) == d + CHUNK_SIZE - 1 >= I32_MAX

\* the closure of find_first applied to candidate dst
matches(locs, sds, dst) == in_intervals(intervals_of(sds), get_src(locs, dst).ret)

\* find_first giving its result as soon as one position has been tested
find_first_ready_early(chnk, tst, bst) == tst # {}

\* find_any in place of find_first: the result is given as soon as some
\* position is found to match
find_first_ready_any(chnk, tst, bst) ==
    bst # 0 \/ \A k \in 1..Len(chnk) : k \in tst

\* find_first has its result: every position left of the leftmost match
\* found (every position, when none is found) has been tested
find_first_ready(chnk, tst, bst) ==
    \A k \in 1..Len(chnk) : k \in tst \/ (bst # 0 /\ k > bst)

\* a worker may still take position k: untested, and not right of a match
worker_may_test(chnk, tst, bst, k) ==
    k \in 1..Len(chnk) /\ k \notin tst /\ (bst = 0 \/ k < bst)

StartProcessRange ==
    /\ Idle
    /\ pc' = "pull"
    /\ iter' = 1
    /\ UNCHANGED <<seeds, locations, call, chunk, tested, best, passed, answer, pilevars>>

\* chunk.collect::<Vec<_>>() with no overflow of the iterator
PullChunk ==
    /\ pc = "pull"
    /\ ~overflows(iter)
    /\ chunk' = take(iter, CHUNK_SIZE)
    /\ iter' = advance(iter, CHUNK_SIZE)
    /\ tested' = {}
    /\ best' = 0
    /\ pc' = "par"
    /\ UNCHANGED <<seeds, locations, call, passed, answer, pilevars>>

\* the iterator passes i32::MAX, overflow checks on: attempt to add with overflow
PullChunkPanic ==
    /\ pc = "pull"
    /\ overflows(iter)
    /\ pc' = "panic"
    /\ UNCHANGED <<seeds, locations, call, iter, chunk, tested, best, passed, answer, pilevars>>

\* the iterator passes i32::MAX, overflow checks off: it wraps to i32::MIN
PullChunkWrap ==
    /\ pc = "pull"
    /\ overflows(iter)
    /\ chunk' = take(iter, CHUNK_SIZE)
    /\ iter' = advance(iter, CHUNK_SIZE)
    /\ tested' = {}
    /\ best' = 0
    /\ pc' = "par"
    /\ UNCHANGED <<seeds, locations, call, passed, answer, pilevars>>

\* one worker maps one candidate back and tests it
WorkerTest ==
    /\ pc = "par"
    /\ \E k \in 1..Len(chunk) :
          /\ worker_may_test(chunk, tested, best, k)
          /\ tested' = tested \cup {k}
          /\ IF get_src(locations, chunk[k]).panic
             THEN pc' = "panic" /\ best' = best
             ELSE /\ pc' = pc
                  /\ best' = IF matches(locations, seeds, chunk[k]) THEN k ELSE best
    /\ UNCHANGED <<seeds, locations, call, iter, chunk, passed, answer, pilevars>>

\* find_first returned None: flat_map goes on to the next chunk
ChunkPassed ==
    /\ pc = "par"
    /\ find_first_ready(chunk, tested, best)
    /\ best = 0
    /\ passed' = passed \cup {chunk[k] : k \in 1..Len(chunk)}
    /\ pc' = "pull"
    /\ UNCHANGED <<seeds, locations, call, iter, chunk, tested, best, answer, pilevars>>

\* find_first returned Some(src): next() yields it and get_dst(src) is returned
ChunkMatched ==
    /\ pc = "par"
    /\ find_first_ready(chunk, tested, best)
    /\ best # 0
    /\ answer' = get_dst(locations, get_src(locations, chunk[best]).ret)
    /\ pc' = IF answer'.panic THEN "panic" ELSE "done"
    /\ UNCHANGED <<seeds, locations, call, iter, chunk, tested, best, passed, pilevars>>

\* the queries on one rule
NextRule ==
    \/ CallRuleMap
    \/ CallRuleReverseMap
    \/ CallSplitRange
    \/ Return

\* the queries on one stage
NextStage ==
    \/ CallLocationMap
    \/ CallLocationReverseMap
    \/ CallMapRanges
    \/ Return

\* the inverse scan
NextScan ==
    \/ StartProcessRange
    \/ PullChunk
    \/ WorkerTest
    \/ ChunkPassed
    \/ ChunkMatched

\* the point-mode answer
NextPoint ==
    \/ CallProcessRaw
    \/ Return

\* construction, then the point-mode answer
NextParse ==
    \/ AlmanachParse
    \/ Return
    \/ CallProcessRaw

Next ==
    \/ CallRuleMap
    \/ CallRuleReverseMap
    \/ CallSplitRange
    \/ CallLocationMap
    \/ CallLocationReverseMap
    \/ CallMapRanges
    \/ CallGetDst
    \/ CallGetSrc
    \/ CallTestMapRange
    \/ CallProcessRaw
    \/ Return
    \/ StartProcessRange
    \/ PullChunk
    \/ WorkerTest
    \/ ChunkPassed
    \/ ChunkMatched

\* Every query on every almanac of the bounds, the scan up to the point
\* where the candidate iterator reaches i32::MAX.
Spec == Init /\ [][Next]_vars

\* The queries of LocationRange on every rule of the bounds.
SpecRule == InitRule /\ [][NextRule]_vars

\* The queries of Location on every stage of the bounds that keeps the
\* stage invariant.
SpecStage == InitStage /\ [][NextStage]_vars

\* Almanach::process_range up to the point where the candidate iterator
\* reaches i32::MAX.
SpecScan == InitScan /\ [][NextScan]_vars

\* Almanach::process_raw on the almanacs of two small stages.
SpecPoint == InitPoint /\ [][NextPoint]_vars

\* Almanach::parse on every input text of the model, well-formed or not.
SpecParse == InitParse /\ [][NextParse]_vars

\* the inverse scan with the candidate iterator running past i32::MAX
NextScanOverflow ==
    \/ NextScan
    \/ PullChunkPanic
    \/ PullChunkWrap

\* Almanach::process_range to its end, whatever the build does on overflow.
SpecScanOverflow == InitScan /\ [][NextScanOverflow]_vars

NextOverflow ==
    \/ Next
    \/ PullChunkPanic
    \/ PullChunkWrap

\* The program with the candidate iterator running past i32::MAX as well.
SpecOverflow == Init /\ [][NextOverflow]_vars

(***************************************************************************)
(* LocationRange at the width of its fields.  dst_start, src_start and     *)
(* length are i32 and the sums and the difference below are plain + and -  *)
(* on i32: a result outside I32_MIN..I32_MAX panics in a build with        *)
(* overflow checks and wraps in a build without them.  The operators       *)
(* above compute in the integers; on the almanacs of the other             *)
(* specifications no result leaves the width, so the two agree there.      *)
(***************************************************************************)
\* two's complement wrap of n to the width of i32
i32_wrap(n) == ((n - I32_MIN) % (2 * (I32_MAX + 1))) + I32_MIN

\* the i32 result of a + or - whose exact value is n
i32_arith(n, overflow_checks) ==
    IF I32_MIN <= n /\ n <= I32_MAX THEN Ok(n)
    ELSE IF overflow_checks THEN [panic |-> TRUE, ret |-> 0]
    ELSE Ok(i32_wrap(n))

\* LocationRange::src_range in i32
src_range_i32(r, overflow_checks) ==
    LET end == i32_arith(r.src_start + r.length, overflow_checks)
    IN  IF end.panic THEN end ELSE Ok(Rg(r.src_start, end.ret))

\* LocationRange::dst_range in i32
dst_range_i32(r, overflow_checks) ==
    LET end == i32_arith(r.dst_start + r.length, overflow_checks)
    IN  IF end.panic THEN end ELSE Ok(Rg(r.dst_start, end.ret))

\* LocationRange::split_range in i32: (src_ranges, dst_range)
split_range_i32(r, query, overflow_checks) ==
    LET src == src_range_i32(r, overflow_checks)
        loc_src_range == src.ret
        left == Max(query.start, loc_src_range.start)
        right == Min(query.end, loc_src_range.end)
        in_loc_range == Rg(left, right)
        parts ==
            IF in_loc_range.start < in_loc_range.end
            THEN [src_ranges |-> <<query>>, in_loc |-> None]
            ELSE IF in_loc_range = query
            THEN [src_ranges |-> <<>>, in_loc |-> Some(query)]
            ELSE IF right = loc_src_range.end
            THEN [src_ranges |-> <<Rg(query.start, in_loc_range.start)>>,
                  in_loc |-> Some(in_loc_range)]
            ELSE IF left = loc_src_range.start
            THEN [src_ranges |-> <<Rg(in_loc_range.end, query.end)>>,
                  in_loc |-> Some(in_loc_range)]
            ELSE [src_ranges |-> <<Rg(query.start, in_loc_range.start),
                                   Rg(in_loc_range.end, query.end)>>,
                  in_loc |-> Some(in_loc_range)]
        offset == i32_arith(r.dst_start - r.src_start, overflow_checks)
        start == i32_arith(parts.in_loc[1].start + offset.ret, overflow_checks)
        end == i32_arith(parts.in_loc[1].end + offset.ret, overflow_checks)
    IN  IF src.panic THEN [panic |-> TRUE, ret |-> 0]
        ELSE IF parts.in_loc = None
        THEN Ok([src_ranges |-> parts.src_ranges, dst_range |-> None])
        ELSE IF offset.panic \/ start.panic \/ end.panic
        THEN [panic |-> TRUE, ret |-> 0]
        ELSE Ok([src_ranges |-> parts.src_ranges,
                 dst_range |-> Some(Rg(start.ret, end.ret))])

\* the rules whose fields are non-negative i32 and whose length is positive
WideRules ==
    {LocationRange_new(d, s, l) : d \in 0..I32_MAX, s \in 0..I32_MAX, l \in 1..I32_MAX}

\* one rule in one stage, its fields anywhere in the width
InitWide ==
    /\ seeds = <<0, 1>>
    /\ locations \in {<<<<r>>>> : r \in WideRules}
    /\ Fresh

CallSrcRange ==
    /\ Idle
    /\ \E overflow_checks \in BOOLEAN :
          Did("LocationRange::src_range", 1, 1, 0, <<>>,
              src_range_i32(locations[1][1], overflow_checks))

CallDstRange ==
    /\ Idle
    /\ \E overflow_checks \in BOOLEAN :
          Did("LocationRange::dst_range", 1, 1, 0, <<>>,
              dst_range_i32(locations[1][1], overflow_checks))

CallSplitRangeWide ==
    /\ Idle
    /\ \E overflow_checks \in BOOLEAN : \E q \in Queries :
          Did("LocationRange::split_range", 1, 1, 0, <<q>>,
              split_range_i32(locations[1][1], q, overflow_checks))

NextWide ==
    \/ CallSrcRange
    \/ CallDstRange
    \/ CallSplitRangeWide
    \/ Return

\* The range computations of LocationRange on every rule of the width,
\* whatever the build does on overflow.
SpecWide == InitWide /\ [][NextWide]_vars

(***************************************************************************)
(* Day 04: the pile of scratchcards (src/day-04/src/main.rs).  `pile` is   *)
(* the Pile, its Vec `duplicates` a sequence: duplicates[k + 1] here is    *)
(* self.duplicates[k] there.  part02 hands the cards one by one to         *)
(* Pile::duplicate_card and then sums the copy counts:                     *)
(*   part02.pc = "for_each"  `done` cards have been handed over            *)
(*   part02.pc = "done"      part02 returned `ret`                         *)
(*   part02.pc = "panic"     the thread panicked                           *)
(* The counts of the piles here stay far below u32::MAX.                   *)
(***************************************************************************)
\* Scratchcard::new: win_num is collected into a HashSet, my_num stays a Vec
Scratchcard_new(id, win_num, my_num) ==
    [id |-> id, win_num |-> {win_num[k] : k \in 1..Len(win_num)}, my_num |-> my_num]

\* the filter of Scratchcard::nums_winning
is_winning(card, n) == n \in card.win_num

RECURSIVE nums_winning_from(_, _)
\* Scratchcard::nums_winning from position k of my_num on
nums_winning_from(card, k) ==
    IF k > Len(card.my_num) THEN <<>>
    ELSE (IF is_winning(card, card.my_num[k]) THEN <<card.my_num[k]>> ELSE <<>>)
         \o nums_winning_from(card, k + 1)

\* Scratchcard::nums_winning
nums_winning(card) == nums_winning_from(card, 1)

\* Scratchcard::n_winning
n_winning(card) == Len(nums_winning(card))

\* Pile::new: one copy of every card
Pile_new(cards) == [cards |-> cards, duplicates |-> [k \in 1..Len(cards) |-> 1]]

RECURSIVE duplicate_card_from(_, _, _, _, _)
\* the `for incr in 1..=n_winning` loop of Pile::duplicate_card from incr on;
\* i is the index into the Vec, counted from 0
duplicate_card_from(duplicates, id, n_win, curr_duplicate, incr) ==
    IF incr > n_win
    THEN Ok(duplicates)
    ELSE LET i == (id + incr) - 1
         IN  IF i > Len(duplicates)
             THEN Ok(duplicates)
             ELSE IF i >= Len(duplicates)
             THEN [panic |-> TRUE, ret |-> duplicates]
             ELSE duplicate_card_from(
                      [duplicates EXCEPT ![i + 1] = @ + curr_duplicate],
                      id, n_win, curr_duplicate, incr + 1)

\* Pile::duplicate_card: the new duplicates, or a panic on an index out of
\* bounds
duplicate_card(duplicates, card) ==
    LET id == card.id
        n_win == n_winning(card)
    IN  IF id < 1 \/ id - 1 >= Len(duplicates)
        THEN [panic |-> TRUE, ret |-> duplicates]
        ELSE duplicate_card_from(duplicates, id, n_win, duplicates[id], 1)

RECURSIVE iter_sum(_)
\* Iterator::sum
iter_sum(v) == IF v = <<>> THEN 0 ELSE Head(v) + iter_sum(Tail(v))

RECURSIVE Ascending(_)
\* the numbers of S, smallest first
Ascending(S) ==
    IF S = {} THEN <<>>
    ELSE LET m == CHOOSE x \in S : \A y \in S : x <= y
         IN  <<m>> \o Ascending(S \ {m})

\* what a card may show: any set of winning numbers; as numbers held,
\* every number once or the number 1 over and over
CardFaces ==
    (SUBSET (1..MaxNum)) \X {[k \in 1..MaxNum |-> k], [k \in 1..MaxNum |-> 1]}

\* the card lists of n cards with the ids 1..n in order
CardListsOf(n) ==
    {[k \in 1..n |-> Scratchcard_new(k, Ascending(f[k][1]), f[k][2])] :
        f \in [1..n -> CardFaces]}

\* part02 has been called on a pile of up to MaxCards cards as Pile::new
\* built it; day 05 is not running
InitPile ==
    /\ seeds = <<>>
    /\ locations = <<>>
    /\ call = NoCall
    /\ pc = "unbuilt"
    /\ iter = 1
    /\ chunk = <<>>
    /\ tested = {}
    /\ best = 0
    /\ passed = {}
    /\ answer = Ok(0)
    /\ \E n \in 0..MaxCards : pile \in {Pile_new(cs) : cs \in CardListsOf(n)}
    /\ part02 = [pc |-> "for_each", done |-> 0, ret |-> 0]

\* for_each hands the next card to Pile::duplicate_card
DuplicateCard ==
    /\ part02.pc = "for_each"
    /\ part02.done < Len(pile.cards)
    /\ LET res == duplicate_card(pile.duplicates, pile.cards[part02.done + 1])
       IN  /\ pile' = [pile EXCEPT !.duplicates = res.ret]
           /\ part02' = IF res.panic
                        THEN [part02 EXCEPT !.pc = "panic"]
                        ELSE [part02 EXCEPT !.done = @ + 1]
    /\ UNCHANGED almanachvars

\* every card has been handed over: pile.duplicates.iter().sum()
Part02Sum ==
    /\ part02.pc = "for_each"
    /\ part02.done = Len(pile.cards)
    /\ part02' = [part02 EXCEPT !.pc = "done", !.ret = iter_sum(pile.duplicates)]
    /\ UNCHANGED <<pile, almanachvars>>

NextPile ==
    \/ DuplicateCard
    \/ Part02Sum

\* part02 on every pile of the bounds.
SpecPile == InitPile /\ [][NextPile]_vars

(***************************************************************************)
(* What the properties speak of.                                           *)
(***************************************************************************)
\* the integers one range holds
PointsOf(rg) == rg.start..(rg.end - 1)

\* the integers a sequence of ranges covers
Covers(rs) == UNION {PointsOf(rs[k]) : k \in 1..Len(rs)}

\* the number of integers of one range
RangeLen(rg) == IF rg.end > rg.start THEN rg.end - rg.start ELSE 0

RECURSIVE TotalLen(_)
TotalLen(rs) == IF rs = <<>> THEN 0 ELSE RangeLen(Head(rs)) + TotalLen(Tail(rs))

\* no two ranges of the sequence share an integer
DisjointRanges(rs) ==
    \A a, b \in 1..Len(rs) : a # b => PointsOf(rs[a]) \cap PointsOf(rs[b]) = {}

\* the stage invariant: the source ranges of the stage are pairwise disjoint
DisjointSources(stage) == DisjointRanges([k \in 1..Len(stage) |-> src_range(stage[k])])

AllDisjointSources == \A i \in DOMAIN locations : DisjointSources(locations[i])

SetMin(S) == CHOOSE m \in S : \A n \in S : m <= n

\* the points of the seed ranges
SeedPoints == Covers(intervals_of(seeds))

\* the starts of the seed pairs: seeds under the point and the range reading
SeedStarts == {seeds[2 * k - 1] : k \in 1..(Len(seeds) \div 2)}

\* the candidate the scan settled on
Found == chunk[best]

(***************************************************************************)
(* C1..C10                                                                 *)
(***************************************************************************)
\* C1: folding map_ranges over the stages in order yields the exact image of
\* the seed ranges: with pairwise-disjoint source ranges in every stage and
\* disjoint seed ranges, the integers the result covers are exactly
\* get_dst(s) for the points s of the seed ranges.
C1_ExactImage ==
    (/\ call.op = "tests::test_map_range"
     /\ AllDisjointSources
     /\ DisjointRanges(call.ranges))
    => Covers(call.out) = {get_dst(locations, s).ret : s \in Covers(call.ranges)}

\* C2: length conservation: for a stage with pairwise-disjoint source ranges
\* and disjoint input ranges, map_ranges returns ranges of the same total
\* length as its input.
C2_LengthConserved ==
    (/\ call.op = "Location::map_ranges"
     /\ DisjointSources(locations[call.i])
     /\ DisjointRanges(call.ranges))
    => TotalLen(call.out) = TotalLen(call.ranges)

\* C3: disjointness: for a stage with pairwise-disjoint source ranges and
\* pairwise-disjoint input ranges, no two ranges map_ranges returns overlap.
C3_OutputDisjoint ==
    (/\ call.op = "Location::map_ranges"
     /\ DisjointSources(locations[call.i])
     /\ DisjointRanges(call.ranges))
    => DisjointRanges(call.out)

\* map_ranges ran on two disjoint ranges against a stage of two disjoint
\* rules and returned at least two ranges, one of them non-empty
C3_Witness ==
    /\ call.op = "Location::map_ranges"
    /\ Len(locations[call.i]) = 2
    /\ DisjointSources(locations[call.i])
    /\ Len(call.ranges) = 2
    /\ DisjointRanges(call.ranges)
    /\ Len(call.out) >= 2
    /\ Covers(call.out) # {}

\* the source ranges split_range's mapped range came from: the mapped range
\* shifted back by dst_start - src_start
PreImage(r, mapped) ==
    [k \in 1..Len(mapped) |->
        Rg(mapped[k].start - (r.dst_start - r.src_start),
           mapped[k].end - (r.dst_start - r.src_start))]

\* C4: split_range is exact: for every rule and non-empty query, the leftover
\* ranges and the pre-image of the mapped range partition the query: they
\* cover the query and nothing else, and no two of them overlap.
C4_SplitExact ==
    call.op = "LocationRange::split_range"
    => LET r == locations[call.i][call.j]
           parts == call.out.src_ranges \o PreImage(r, call.out.dst_range)
       IN  /\ Covers(parts) = PointsOf(call.ranges[1])
           /\ DisjointRanges(parts)

\* the brute-force answer: the least get_dst over the points of the seed ranges
BruteForceMin == SetMin({get_dst(locations, s).ret : s \in SeedPoints})

\* C5: cross-validation: what process_range returns is the minimum of get_dst
\* over every point of the seed ranges.
C5_CrossValidation ==
    pc = "done" => answer.ret = BruteForceMin

\* C6: pipeline round trip: with pairwise-disjoint source ranges in every
\* stage, get_dst(get_src(d)) = d for every d that is get_dst(s) of a seed s.
C6_RoundTrip ==
    (/\ call.op = "Almanach::get_src"
     /\ AllDisjointSources
     /\ \E s \in SeedStarts : get_dst(locations, s).ret = call.x)
    => get_dst(locations, call.out.ret).ret = call.x

\* the candidates d >= 0 whose get_src(d) lies in a seed range
Matching == {d \in 0..I32_MAX : matches(locations, seeds, d)}

\* C7: the inverse scan examines d = 0, 1, 2, ... in increasing order and
\* selects the smallest d, d = 0 included, whose get_src(d) lies in a seed
\* range: no candidate is examined before every smaller one from 0 on has
\* been examined or is in the same chunk, and the one selected is the least.
C7_SmallestFromZero ==
    /\ pc \in {"par", "done"}
       => \A k \in 1..Len(chunk) : \A e \in 0..(chunk[k] - 1) :
             e \in passed \/ \E m \in 1..Len(chunk) : chunk[m] = e
    /\ pc = "done" => Found = SetMin(Matching)

\* C8: chunk ordering: the chunks hold consecutive candidates and are taken
\* in increasing order, none skipped; every chunk before the current one was
\* passed because it holds no match; the scan stops at the first chunk that
\* yields a match, with the iterator standing right behind that chunk.
C8_ChunkOrder ==
    /\ \A k \in 1..(Len(chunk) - 1) : chunk[k + 1] = chunk[k] + 1
    /\ pc \in {"par", "done"} => passed = 1..(chunk[1] - 1)
    /\ pc = "pull" /\ chunk # <<>> => passed = 1..chunk[Len(chunk)]
    /\ \A d \in passed : ~matches(locations, seeds, d)
    /\ pc = "done" => /\ best # 0
                      /\ matches(locations, seeds, Found)
                      /\ iter = chunk[Len(chunk)] + 1

\* a match of the second chunk or later was reported
C8_Witness ==
    /\ pc = "done"
    /\ passed # {}
    /\ chunk[1] > CHUNK_SIZE

\* C9: Location::map is total: it never fails; it returns
\* x - src_start + dst_start for a rule whose source range contains x, and x
\* when no rule of the stage covers x.  The stage of rules (50,98,2) and
\* (52,50,48) maps 79 to 81, whichever rule its set yields first.
C9_LocationMapTotal ==
    /\ call.op = "Location::map"
       => LET stage == locations[call.i]
              covering == {j \in 1..Len(stage) : Contains(src_range(stage[j]), call.x)}
          IN  /\ ~call.out.panic
              /\ covering = {} => call.out.ret = call.x
              /\ covering # {} =>
                    \E j \in covering :
                       call.out.ret = call.x - stage[j].src_start + stage[j].dst_start
    /\ Location_map(<<LocationRange_new(50, 98, 2), LocationRange_new(52, 50, 48)>>, 79)
          = Ok(81)
    /\ Location_map(<<LocationRange_new(52, 50, 48), LocationRange_new(50, 98, 2)>>, 79)
          = Ok(81)

\* Location::map went past a first rule that does not cover x and returned
\* what the second rule maps x to
C9_Witness ==
    /\ call.op = "Location::map"
    /\ Len(locations[call.i]) = 2
    /\ ~Contains(src_range(locations[call.i][1]), call.x)
    /\ Contains(src_range(locations[call.i][2]), call.x)
    /\ call.out.ret # call.x

\* C10: LocationRange::map(x) is Some(x - src_start + dst_start) exactly when
\* src_start <= x < src_start + length, and None otherwise.  The rule
\* (dst=50, src=98, length=2) maps 98 to 50 and 99 to 51 and gives None for 100.
C10_RuleMap ==
    /\ call.op = "LocationRange::map"
       => LET r == locations[call.i][call.j]
          IN  call.out =
                 IF r.src_start <= call.x /\ call.x < r.src_start + r.length
                 THEN Ok(Some(call.x - r.src_start + r.dst_start))
                 ELSE Ok(None)
    /\ LocationRange_map(LocationRange_new(50, 98, 2), 98) = Ok(Some(50))
    /\ LocationRange_map(LocationRange_new(50, 98, 2), 99) = Ok(Some(51))
    /\ LocationRange_map(LocationRange_new(50, 98, 2), 100) = Ok(None)

\* LocationRange::map returned Some of a value other than its argument
C10_Witness ==
    /\ call.op = "LocationRange::map"
    /\ call.out.ret # None
    /\ call.out.ret # Some(call.x)

\* C11: rule round trip: for every rule and every x in its source range,
\* map(x) is Some(y) with y in the destination range, and reverse_map(y) is
\* Some(x).
C11_RuleRoundTrip ==
    (/\ call.op = "LocationRange::map"
     /\ Contains(src_range(locations[call.i][call.j]), call.x))
    => LET r == locations[call.i][call.j]
       IN  /\ ~call.out.panic
           /\ call.out.ret # None
           /\ Contains(dst_range(r), call.out.ret[1])
           /\ LocationRange_reverse_map(r, call.out.ret[1]) = Ok(Some(call.x))

\* LocationRange::map moved a point of the source range of a rule that
\* shifts, to the last value of its destination range
C11_Witness ==
    /\ call.op = "LocationRange::map"
    /\ Contains(src_range(locations[call.i][call.j]), call.x)
    /\ call.out.ret # None
    /\ call.out.ret # Some(call.x)
    /\ locations[call.i][call.j].length > 1
    /\ call.out.ret[1] = locations[call.i][call.j].dst_start + locations[call.i][call.j].length - 1

\* C12: split_range, query inside the rule: a non-empty query contained in
\* the rule's source range leaves nothing over and is mapped whole, shifted
\* by dst_start - src_start.
C12_SplitInside ==
    (/\ call.op = "LocationRange::split_range"
     /\ call.ranges[1].start < call.ranges[1].end
     /\ src_range(locations[call.i][call.j]).start <= call.ranges[1].start
     /\ call.ranges[1].end <= src_range(locations[call.i][call.j]).end)
    => LET r == locations[call.i][call.j]
           q == call.ranges[1]
           offset == r.dst_start - r.src_start
       IN  /\ call.out.src_ranges = <<>>
           /\ call.out.dst_range = Some(Rg(q.start + offset, q.end + offset))

\* C13: split_range, no overlap: a non-empty query that shares no integer
\* with the rule's source range is left over whole and nothing is mapped.
C13_SplitNoOverlap ==
    (/\ call.op = "LocationRange::split_range"
     /\ call.ranges[1].start < call.ranges[1].end
     /\ PointsOf(call.ranges[1]) \cap PointsOf(src_range(locations[call.i][call.j])) = {})
    => /\ call.out.src_ranges = <<call.ranges[1]>>
       /\ call.out.dst_range = None

\* the published example almanac (./data/test_input.txt of tests::test_p1),
\* its seven stages in the order of SEED_STEPS
ReferenceAlmanac ==
    << <<LocationRange_new(50, 98, 2), LocationRange_new(52, 50, 48)>>,
       <<LocationRange_new(0, 15, 37), LocationRange_new(37, 52, 2),
         LocationRange_new(39, 0, 15)>>,
       <<LocationRange_new(49, 53, 8), LocationRange_new(0, 11, 42),
         LocationRange_new(42, 0, 7), LocationRange_new(57, 7, 4)>>,
       <<LocationRange_new(88, 18, 7), LocationRange_new(18, 25, 70)>>,
       <<LocationRange_new(45, 77, 23), LocationRange_new(81, 45, 19),
         LocationRange_new(68, 64, 13)>>,
       <<LocationRange_new(0, 69, 1), LocationRange_new(1, 0, 69)>>,
       <<LocationRange_new(60, 56, 37), LocationRange_new(56, 93, 4)>> >>

\* the seed line of the published example
ReferenceSeeds == <<79, 14, 55, 13>>

\* tests::test_p1: process_raw on the published example
ReferencePointAnswer == process_raw(ReferenceAlmanac, ReferenceSeeds)

\* C14: point-mode answer: for every almanac and non-empty seed list,
\* process_raw returns the least get_dst(s) over the seeds s of the list, and
\* does not fail; on the published example it returns 35.
C14_PointAnswer ==
    /\ call.op = "Almanach::process_raw"
       => /\ ~call.out.panic
          /\ \E k \in 1..Len(seeds) : call.out.ret = get_dst(locations, seeds[k]).ret
          /\ \A k \in 1..Len(seeds) : call.out.ret <= get_dst(locations, seeds[k]).ret
    /\ ReferencePointAnswer = Ok(35)

\* process_raw returned the value of a seed that is not the smallest seed:
\* a rule sent a larger seed below the others
C14_Witness ==
    /\ call.op = "Almanach::process_raw"
    /\ \E k \in 1..Len(seeds) :
          /\ call.out.ret = get_dst(locations, seeds[k]).ret
          /\ \E m \in 1..Len(seeds) :
                /\ seeds[m] < seeds[k]
                /\ get_dst(locations, seeds[m]).ret > call.out.ret

\* C15: construction-time disjointness validation: no almanac is built
\* with a stage holding two rules whose source ranges overlap; such an
\* input ends Almanach::parse in a panic.
C15_DisjointValidated ==
    pc = "built" => AllDisjointSources

\* C16: a rule of length 0 is rejected at construction: no built almanac
\* holds one.
C16_ZeroLengthRejected ==
    pc = "built"
    => \A i \in DOMAIN locations : \A j \in 1..Len(locations[i]) :
          locations[i][j].length > 0

\* a stage block is missing, a rule line does not have three tokens, or a
\* token of a rule line is not a number
Malformed(input) ==
    \E i \in DOMAIN input.blocks :
       \/ ~input.blocks[i].present
       \/ \E l \in 1..Len(input.blocks[i].lines) :
             \/ Len(input.blocks[i].lines[l]) # 3
             \/ \E t \in 1..Len(input.blocks[i].lines[l]) :
                   \/ input.blocks[i].lines[l][t].digits = None
                   \/ input.blocks[i].lines[l][t].junk

\* C18: malformed input is fatal: when a stage block is missing, a rule
\* line has fewer or more than three tokens, or a field is not a number,
\* Almanach::parse panics and returns no almanac.
C18_MalformedFatal ==
    (call.op = "Almanach::parse" /\ Malformed(call.input)) => pc # "built"

\* C17: the inverse scan stops: it ends with an answer or, once the
\* destinations 1..i32::MAX are exhausted, with an explicit no-solution
\* outcome; it never fails with an arithmetic error and never goes on
\* scanning past the end of the destination domain.
C17_ScanStops ==
    /\ pc # "panic"
    /\ pc \in {"pull", "par", "done"} => \A k \in 1..Len(chunk) : chunk[k] >= 1

\* C19: within one chunk the fan-out yields the chunk's smallest matching
\* destination, or none when no candidate of the chunk matches, whichever
\* worker finishes first: a reported candidate matches and no smaller
\* candidate of its chunk does, and a chunk is passed only when none of its
\* candidates matches.
C19_ChunkFirstMatch ==
    /\ pc = "done"
       => /\ best \in 1..Len(chunk)
          /\ matches(locations, seeds, chunk[best])
          /\ \A k \in 1..Len(chunk) :
                matches(locations, seeds, chunk[k]) => chunk[best] <= chunk[k]
    /\ (pc = "pull" /\ chunk # <<>>)
       => \A k \in 1..Len(chunk) : ~matches(locations, seeds, chunk[k])

\* a worker found a match at a later position before the reported one was
\* found: the chunk held two matches and the smaller one was reported
C19_Witness ==
    /\ pc = "done"
    /\ \E k \in tested : k > best /\ matches(locations, seeds, chunk[k])

\* the rules of a stage as a set
RulesOf(stage) == {stage[k] : k \in 1..Len(stage)}

\* C20: order independence of map_ranges: for a stage with pairwise-disjoint
\* source ranges, whatever order the HashSet yields the rules in, the ranges
\* map_ranges returns cover the same integers and have the same total length.
C20_OrderIndependent ==
    (/\ call.op = "Location::map_ranges"
     /\ DisjointSources(locations[call.i]))
    => \A other \in Orders(RulesOf(locations[call.i])) :
          /\ Covers(map_ranges(other, call.ranges)) = Covers(call.out)
          /\ TotalLen(map_ranges(other, call.ranges)) = TotalLen(call.out)

\* C21: rule arithmetic does not wrap.  For a rule with non-negative
\* dst_start and src_start and a positive length, all i32, src_range,
\* dst_range and split_range return what the exact sums src_start + length
\* and dst_start + length and the exact difference dst_start - src_start
\* give: no call panics on overflow and no value wraps.
C21_ArithmeticExact ==
    /\ call.op = "LocationRange::src_range" =>
          call.out = Ok(src_range(locations[1][1]))
    /\ call.op = "LocationRange::dst_range" =>
          call.out = Ok(dst_range(locations[1][1]))
    /\ call.op = "LocationRange::split_range" =>
          call.out = Ok(split_range(locations[1][1], call.ranges[1]))

\* C22: what process_range returns, get_dst(get_src(d)) for the first
\* matching scanned destination d, is d itself, whenever the source ranges
\* of every stage are pairwise disjoint.
C22_ReturnsFound ==
    (pc = "done" /\ AllDisjointSources) => answer = Ok(Found)

\* C23: Location::reverse_map is deterministic under the stage invariant:
\* for a stage whose rules have pairwise-disjoint source ranges and every
\* integer y, reverse_map(y) is the same in every iteration order of the
\* stage's rule set.
C23_ReverseMapDeterministic ==
    (call.op = "Location::reverse_map" /\ DisjointSources(locations[call.i]))
    => \A other \in Orders(RulesOf(locations[call.i])) :
          Location_reverse_map(other, call.x) = call.out

\* card j of the pile wins a copy of card k: k is one of the n_winning(j)
\* cards after j
WinsCopyOf(j, k) == j < k /\ k <= j + n_winning(pile.cards[j])

RECURSIVE Copies(_)
\* the copies of card k held at the end: the original and, for every
\* earlier card that wins a copy of k, one per copy of that card
Copies(k) ==
    LET RECURSIVE from(_)
        from(j) == IF j >= k THEN 0
                   ELSE (IF WinsCopyOf(j, k) THEN Copies(j) ELSE 0) + from(j + 1)
    IN  1 + from(1)

RECURSIVE CopiesAfter(_, _, _)
\* the copies of card k held once the first `done` cards have been handed
\* over, counted from card j on
CopiesAfter(k, done, j) ==
    IF j > done \/ j >= k THEN 0
    ELSE (IF WinsCopyOf(j, k) THEN Copies(j) ELSE 0) + CopiesAfter(k, done, j + 1)

\* C24: scratchcard copy cascade: on a pile of n cards with the ids 1..n,
\* handed over in order by part02, duplicate_card adds the copy count of
\* the current card to each of the next n_winning cards that exist and
\* skips the cards past the end of the pile, so that it never indexes
\* duplicates out of bounds (no panic), and part02 returns the total number
\* of cards held.
C24_CopyCascade ==
    /\ part02.pc # "panic"
    /\ part02.pc = "for_each" =>
          \A k \in 1..Len(pile.cards) :
             pile.duplicates[k] = 1 + CopiesAfter(k, part02.done, 1)
    /\ part02.pc = "done" =>
          part02.ret = iter_sum([k \in 1..Len(pile.cards) |-> Copies(k)])

====
